---- MODULE Spec2Model ----
(***************************************************************************)
(* Model of the PR issue-correctness checker                               *)
(* (.github/actions/pr-checker): the analyzer pipeline of pr-checker.js    *)
(* (PRAnalyzer, main, generateComment) and the comment publisher of        *)
(* comment-handler.js (CommentHandler).                                    *)
(*                                                                         *)
(* Strings are sequences of symbols.  A symbol is one character ("#", a    *)
(* digit, a blank, the filler letter "x"), one of the words the code       *)
(* searches for ("fix", "add", ...), or "para", a run of 60 filler         *)
(* letters; Width gives the number of characters a symbol stands for.      *)
(***************************************************************************)
EXTENDS Integers, Sequences, FiniteSets, TLC

VARIABLES
    \* the repository host: the pull request and its comments
    pull,         \* the pull request: [title, body]
    files,        \* the files the pull request changes
    comments,     \* the comments of the pull request, oldest first
    tokenType,    \* the account type the host reports for the action's token
    \* the process of one run (pr-checker.js)
    pc,           \* the request the run is waiting for; "idle" before the first
                  \* run, "exited" once the process has ended
    run,          \* number of runs started
    env,          \* the environment the process was started with
    issueNums,    \* analyzePR: issueNumbers, the extracted issue numbers
    issueList,    \* analyzePR / fetchIssues: issues, the issues fetched so far
    fileList,     \* analyzePR: fileChanges, the fetched file changes
    result,       \* main: what analyzePR returned, <<>> before it returns
    comment,      \* main: the rendered comment, <<>> before it is rendered
    target,       \* postOrUpdateComment: the id of the existing comment found
    outputs,      \* the ::set-output lines written
    exitCode,     \* the exit status of the process, -1 while it runs
    \* history
    log,          \* the requests of the current run and their outcomes
    listed,       \* the comment list the host returned to the run, <<>> if none
    clean,        \* every run ended so far posted with update-existing, had its
                  \* analysis succeed and saw no request fail
    exTitle,      \* extraction check: the PR title handed to extractIssueNumbers
    exBody,       \* extraction check: the PR body handed to extractIssueNumbers
    exOut,        \* extraction check: <<>> before the call, <<result>> after it
    rsp,          \* parser check: the model response handed to parseClaudeResponse
    rspOut,       \* parser check: <<>> before the call, <<result>> after it
    basicArgs,    \* scoring check: <<>>, or <<the arguments of performBasicAnalysis>>
    basicOut,     \* scoring check: <<>> before the call, <<result>> after it
    pub           \* overlapping runs: for each run the state of its call of
                  \* postOrUpdateComment; <<>> where runs do not overlap

exVars == <<exTitle, exBody, exOut>>

rspVars == <<rsp, rspOut>>

basicVars == <<basicArgs, basicOut>>

hostVars == <<pull, files, comments, tokenType>>

runVars ==
    <<pc, run, env, issueNums, issueList, fileList, result, comment, target,
      outputs, exitCode>>

histVars == <<log, listed, clean>>

pipeVars == <<hostVars, runVars, histVars>>

(***************************************************************************)
(* Bounds of the model                                                     *)
(***************************************************************************)
MaxTitleLen == 4          \* longest title drawn for the extraction check

MaxRuns == 2              \* runs of the checker against the pull request

MaxOtherComments == 1     \* comments other accounts add to the pull request

MaxFiles == 2             \* longest file list drawn for the changes check

MaxIssues == 3            \* most issues drawn for the scoring check

MaxOverlap == 2           \* runs that overlap in time

(***************************************************************************)
(* Strings                                                                 *)
(***************************************************************************)
Digits == {"1", "2"}

Verbs == {"fix"}

IsDigit(c) == c \in Digits

IsSpace(c) == c = " "

DigitVal(c) == IF c = "1" THEN 1 ELSE 2

\* the template literal `${prData.title} ${prData.body || ''}`
PRText(prData) == prData.title \o <<" ">> \o prData.body

RECURSIVE DigitRun(_, _)
\* length of the maximal run of digits of text that starts at index i (\d+, greedy)
DigitRun(text, i) ==
    IF i <= Len(text) /\ IsDigit(text[i]) THEN 1 + DigitRun(text, i + 1) ELSE 0

RECURSIVE SpaceRun(_, _)
\* length of the maximal run of blanks of text that starts at index i (\s+, greedy)
SpaceRun(text, i) ==
    IF i <= Len(text) /\ IsSpace(text[i]) THEN 1 + SpaceRun(text, i + 1) ELSE 0

RECURSIVE ParseInt(_, _, _)
\* parseInt of the n digits of text that start at index i
ParseInt(text, i, n) ==
    IF n = 0 THEN 0
    ELSE 10 * ParseInt(text, i, n - 1) + DigitVal(text[i + n - 1])

NoMatch == [ok |-> FALSE, num |-> 0, at |-> 0, next |-> 0]

\* a match whose group 1 is the n digits at index d
Matched(text, d, n) ==
    [ok |-> TRUE, num |-> ParseInt(text, d, n), at |-> d, next |-> d + n]

\* /#(\d+)/ anchored at index i
MatchHash(text, i) ==
    IF text[i] = "#" /\ DigitRun(text, i + 1) > 0
    THEN Matched(text, i + 1, DigitRun(text, i + 1))
    ELSE NoMatch

\* /(?:fix(?:es)?|close(?:s)?|resolve(?:s)?)\s+#(\d+)/i anchored at index i
MatchVerbHash(text, i) ==
    LET s == SpaceRun(text, i + 1) IN
    IF /\ text[i] \in Verbs
       /\ s > 0
       /\ i + 1 + s <= Len(text)
       /\ text[i + 1 + s] = "#"
       /\ DigitRun(text, i + 2 + s) > 0
    THEN Matched(text, i + 2 + s, DigitRun(text, i + 2 + s))
    ELSE NoMatch

\* /(?:fix(?:es)?|close(?:s)?|resolve(?:s)?)\s+(\d+)/i anchored at index i
MatchVerbNum(text, i) ==
    LET s == SpaceRun(text, i + 1) IN
    IF text[i] \in Verbs /\ s > 0 /\ DigitRun(text, i + 1 + s) > 0
    THEN Matched(text, i + 1 + s, DigitRun(text, i + 1 + s))
    ELSE NoMatch

Patterns == <<"hash", "verbHash", "verbNum">>

MatchAt(pattern, text, i) ==
    CASE pattern = "hash"     -> MatchHash(text, i)
      [] pattern = "verbHash" -> MatchVerbHash(text, i)
      [] pattern = "verbNum"  -> MatchVerbNum(text, i)

\* SetAdd without the membership test of a Set: an array push
SetAddPush(set, n) == Append(set, n)

\* Set.prototype.add on a Set kept in insertion order
SetAdd(set, n) ==
    IF \E k \in 1..Len(set) : set[k] = n THEN set ELSE Append(set, n)

RECURSIVE ExecLoop(_, _, _, _)
\* while ((match = pattern.exec(text)) !== null) issueNumbers.add(parseInt(match[1]))
\* with a global pattern: the search resumes at lastIndex, the end of the match
ExecLoop(pattern, text, lastIndex, issueNumbers) ==
    IF lastIndex > Len(text) THEN issueNumbers
    ELSE LET m == MatchAt(pattern, text, lastIndex) IN
         IF m.ok
         THEN ExecLoop(pattern, text, m.next, SetAdd(issueNumbers, m.num))
         ELSE ExecLoop(pattern, text, lastIndex + 1, issueNumbers)

RECURSIVE ForEachPattern(_, _, _)
\* patterns.forEach(pattern => { pattern.lastIndex = 0; while (...) ... })
ForEachPattern(p, text, issueNumbers) ==
    IF p > Len(Patterns) THEN issueNumbers
    ELSE ForEachPattern(p + 1, text, ExecLoop(Patterns[p], text, 1, issueNumbers))

extractIssueNumbers(prData) == ForEachPattern(1, PRText(prData), <<>>)

(***************************************************************************)
(* JavaScript values                                                       *)
(*                                                                         *)
(* A value is a record: k is its type ("undef", "null", "num", "str" or    *)
(* "arr"), n the number, s the string, a the elements of the array.        *)
(***************************************************************************)
Undef == [k |-> "undef", n |-> 0, s |-> "", a |-> <<>>]

Null == [k |-> "null", n |-> 0, s |-> "", a |-> <<>>]

Num(n) == [k |-> "num", n |-> n, s |-> "", a |-> <<>>]

Str(s) == [k |-> "str", n |-> 0, s |-> s, a |-> <<>>]

Arr(a) == [k |-> "arr", n |-> 0, s |-> "", a |-> a]

\* ToBoolean
Truthy(v) ==
    CASE v.k = "undef" -> FALSE
      [] v.k = "null"  -> FALSE
      [] v.k = "num"   -> v.n # 0
      [] v.k = "str"   -> v.s # ""
      [] OTHER         -> TRUE

\* v || d
OrElse(v, d) == IF Truthy(v) THEN v ELSE d

(***************************************************************************)
(* Model responses                                                         *)
(*                                                                         *)
(* The text of a model response is a sequence of tokens:                   *)
(*   "{" and "}"   a brace;                                                *)
(*   "member"      a JSON member  "key": val  (with its comma);            *)
(*   "section"     the line  KEY<sep>val  and the lines after it that do   *)
(*                 not start with a `word:` label;                         *)
(*   "prose"       any other text without braces.                          *)
(***************************************************************************)
Tok(t) == [t |-> t, key |-> "", sep |-> "", val |-> Undef]

Member(key, val) == [t |-> "member", key |-> key, sep |-> "", val |-> val]

Section(key, sep, val) == [t |-> "section", key |-> key, sep |-> sep, val |-> val]

FieldKeys ==
    {"correctness_score", "completeness_score", "risk_level",
     "missing_requirements", "implementation_quality", "recommendations"}

\* response.match(/\{[\s\S]*\}/): from the first "{" to the last "}"
BraceMatch(response) ==
    LET opens  == {i \in 1..Len(response) : response[i].t = "{"}
        closes == {j \in 1..Len(response) : response[j].t = "}"}
    IN IF opens = {} THEN <<>>
       ELSE LET i == CHOOSE x \in opens : \A y \in opens : x <= y
                after == {j \in closes : j > i}
            IN IF after = {} THEN <<>>
               ELSE LET j == CHOOSE x \in after : \A y \in after : x >= y
                    IN SubSeq(response, i, j)

\* JSON.parse accepts the text: members only between the two braces
JsonValid(text) ==
    /\ Len(text) >= 2
    /\ \A i \in 2..(Len(text) - 1) : text[i].t = "member"

\* parsed[key] of JSON.parse(text): the last member of that key, else undefined
JsonGet(text, key) ==
    LET at == {i \in 2..(Len(text) - 1) : text[i].key = key}
    IN IF at = {} THEN Undef
       ELSE text[CHOOSE x \in at : \A y \in at : x >= y].val

IsNum(v) == v.k = "num"

IsAny(v) == TRUE

ToUpperCase(s) ==
    CASE s = "low" -> "LOW" [] s = "medium" -> "MEDIUM" [] s = "high" -> "HIGH"
      [] OTHER -> s

IsRiskWord(v) == v.k = "str" /\ ToUpperCase(v.s) \in {"LOW", "MEDIUM", "HIGH"}

\* the capture group of a pattern accepts the value that follows the label
Accepts(group, v) ==
    CASE group = "[0-9]+"          -> IsNum(v)
      [] group = "LOW|MEDIUM|HIGH" -> IsRiskWord(v)
      [] OTHER                     -> IsAny(v)

\* the first section of the response with the label and one of the separators
\* whose value the pattern's group accepts, else none
FindSection(response, label, seps, group) ==
    LET at == {i \in 1..Len(response) :
                  /\ response[i].t = "section"
                  /\ response[i].key = label
                  /\ response[i].sep \in seps
                  /\ Accepts(group, response[i].val)}
    IN IF at = {} THEN <<>>
       ELSE <<response[CHOOSE x \in at : \A y \in at : x <= y]>>

\* text.match(new RegExp(`${scoreType}[:\\s]*([0-9]+)`, 'i'))
extractScore(text, scoreType) ==
    LET m == FindSection(text, scoreType, {":", ": "}, "[0-9]+")
    IN IF m # <<>> THEN Num(m[1].val.n) ELSE Null

\* text.match(new RegExp(`${section}[:\\s]*([^\\n]*(?:\\n(?!\\w+:)[^\\n]*)*)`, 'i'))
extractSection(text, section) ==
    LET m == FindSection(text, section, {":", ": "}, "[^\\n]*")
    IN IF m # <<>> THEN Str(m[1].val.s) ELSE Null

\* text.match(/RISK_LEVEL[:\\s]*(LOW|MEDIUM|HIGH)/i): in a regex literal the
\* class [:\\s] holds ':', '\' and 's', no blank
extractRiskLevel(text) ==
    LET m == FindSection(text, "RISK_LEVEL", {":"}, "LOW|MEDIUM|HIGH")
    IN IF m # <<>> THEN Str(ToUpperCase(m[1].val.s)) ELSE Str("UNKNOWN")

\* the try block of parseClaudeResponse, given that JSON.parse succeeded
ParsedJson(text) ==
    [correctness_score      |-> OrElse(JsonGet(text, "correctness_score"), Str("N/A")),
     completeness_score     |-> OrElse(JsonGet(text, "completeness_score"), Str("N/A")),
     risk_level             |-> OrElse(JsonGet(text, "risk_level"), Str("UNKNOWN")),
     missing_requirements   |->
         OrElse(JsonGet(text, "missing_requirements"), Str("Unable to determine")),
     implementation_quality |->
         OrElse(JsonGet(text, "implementation_quality"), Str("Not assessed")),
     recommendations        |->
         IF JsonGet(text, "recommendations").k = "arr"
         THEN JsonGet(text, "recommendations").a
         ELSE <<OrElse(JsonGet(text, "recommendations"),
                       Str("No specific recommendations"))>>,
     analysis_type          |-> "AI-Powered"]

\* the fallback to text parsing
ParsedText(response) ==
    [correctness_score      |-> extractScore(response, "CORRECTNESS_SCORE"),
     completeness_score     |-> extractScore(response, "COMPLETENESS_SCORE"),
     risk_level             |-> extractRiskLevel(response),
     missing_requirements   |-> extractSection(response, "MISSING_REQUIREMENTS"),
     implementation_quality |-> extractSection(response, "IMPLEMENTATION_QUALITY"),
     recommendations        |->
         <<OrElse(extractSection(response, "RECOMMENDATIONS"),
                  Str("See full analysis for details"))>>,
     analysis_type          |-> "AI-Powered (Parsed)",
     raw_response           |-> response]

parseClaudeResponse(response) ==
    LET jsonMatch == BraceMatch(response)
    IN IF jsonMatch # <<>> /\ JsonValid(jsonMatch)
       THEN ParsedJson(jsonMatch)
       ELSE ParsedText(response)

(***************************************************************************)
(* File changes and heuristic scoring                                      *)
(*                                                                         *)
(* A file name is a sequence of fragments ("src", "/", "app", ".", "ts");  *)
(* a file change is [filename, changes].                                   *)
(***************************************************************************)
\* number of characters a symbol of a string stands for
Width(c) ==
    CASE c = "para" -> 60
      [] c \in {"fix", "add"} -> 3
      [] c \in {"update", "create", "remove"} -> 6
      [] c = "implement" -> 9
      [] OTHER -> 1

RECURSIVE StrLen(_)
\* String.prototype.length
StrLen(str) == IF str = <<>> THEN 0 ELSE Width(Head(str)) + StrLen(Tail(str))

\* str.trim() is the empty string
TrimEmpty(str) == \A i \in 1..Len(str) : IsSpace(str[i])

\* str.includes(word) for one of the words the code searches for
HasWord(str, word) == \E i \in 1..Len(str) : str[i] = word

\* name.includes(needle): needle is a contiguous part of name
Includes(name, needle) ==
    \E i \in 0..(Len(name) - Len(needle)) :
        \A k \in 1..Len(needle) : name[i + k] = needle[k]

ToLowerCase(f) ==
    CASE f = "MD" -> "md" [] f = "README" -> "readme" [] OTHER -> f

\* name.toLowerCase().endsWith(ext)
EndsWithLower(name, ext) ==
    /\ Len(name) >= Len(ext)
    /\ \A k \in 1..Len(ext) :
          ToLowerCase(name[Len(name) - Len(ext) + k]) = ext[k]

skipExtensions ==
    {<<".", "md">>, <<".", "txt">>, <<".", "gitignore">>,
     <<".", "yml">>, <<".", "yaml">>, <<".", "json">>}

RECURSIVE SumChanges(_)
\* fileChanges.reduce((sum, file) => sum + file.changes, 0)
SumChanges(fileChanges) ==
    IF fileChanges = <<>> THEN 0
    ELSE Head(fileChanges).changes + SumChanges(Tail(fileChanges))

hasMeaningfulChanges(fileChanges) ==
    IF Len(fileChanges) = 0 THEN FALSE
    ELSE IF SumChanges(fileChanges) = 0 THEN FALSE
    ELSE LET isSkippableFile(file) ==
                 \E ext \in skipExtensions : EndsWithLower(file.filename, ext)
             hasSubstantialChanges(file) == file.changes > 5
             meaningfulFiles ==
                 SelectSeq(fileChanges,
                           LAMBDA file : ~isSkippableFile(file) \/ hasSubstantialChanges(file))
         IN /\ Len(meaningfulFiles) > 0
            /\ \E i \in 1..Len(meaningfulFiles) : meaningfulFiles[i].changes > 1

AnyFile(fileChanges, needles) ==
    \E i \in 1..Len(fileChanges) :
        \E needle \in needles : Includes(fileChanges[i].filename, needle)

TestNeedles ==
    {<<"test">>, <<"spec">>, <<"__tests__">>, <<".", "test", ".">>, <<".", "spec", ".">>}

DocNeedles == {<<"README">>, <<".", "md">>, <<"docs", "/">>, <<"documentation">>}

CoreNeedles ==
    {<<"config">>, <<"package", ".", "json">>, <<"requirements", ".", "txt">>,
     <<"Dockerfile">>, <<".", "env">>}

Keywords == <<"fix", "add", "update", "implement", "create", "remove">>

RECURSIVE JoinIssues(_)
\* issues.map(i => `${i.title} ${i.body}`).join(' ')
JoinIssues(issues) ==
    IF issues = <<>> THEN <<>>
    ELSE Head(issues).title \o <<" ">> \o Head(issues).body
         \o (IF Len(issues) > 1 THEN <<" ">> ELSE <<>>) \o JoinIssues(Tail(issues))

\* MinOf without the cap: the value itself
MinOfUncapped(a, b) == b

\* Math.min
MinOf(a, b) == IF a < b THEN a ELSE b

\* MaxOf without the floor: the value itself
MaxOfUnfloored(a, b) == b

\* Math.max
MaxOf(a, b) == IF a > b THEN a ELSE b

BoolNum(b, n) == IF b THEN n ELSE 0

\* [cond && 'text', ...].filter(Boolean)
Truthies(entries) ==
    LET kept == SelectSeq(entries, LAMBDA e : e.cond)
    IN [i \in 1..Len(kept) |-> Str(kept[i].text)]

RecTests == "Consider adding or updating tests for the changes"

RecDocs == "Consider updating documentation for significant changes"

RecSplit == "Consider breaking this into smaller PRs for easier review"

RecHighRisk == "High risk changes detected - consider additional review"

RecLinkIssues ==
    "Consider linking related issues to provide more context for future reviews"

RecDescription ==
    "Consider adding a more detailed PR description explaining the purpose and scope of changes"

\* RiskLevelOf with MEDIUM from two risk factors on
RiskLevelFromTwo(factors) ==
    IF factors > 2 THEN "HIGH" ELSE IF factors > 1 THEN "MEDIUM" ELSE "LOW"

\* riskFactors.length > 2 ? 'HIGH' : riskFactors.length > 0 ? 'MEDIUM' : 'LOW'
RiskLevelOf(factors) ==
    IF factors > 2 THEN "HIGH" ELSE IF factors > 0 THEN "MEDIUM" ELSE "LOW"

performBasicAnalysis(prData, issues, fileChanges) ==
    LET totalChanges == SumChanges(fileChanges)
        fileCount == Len(fileChanges)
        hasIssues == Len(issues) > 0
        hasTests == AnyFile(fileChanges, TestNeedles)
        hasDocumentation == AnyFile(fileChanges, DocNeedles)
        coreFiles == AnyFile(fileChanges, CoreNeedles)
        riskFactors ==
            Truthies(<<[cond |-> totalChanges > 500, text |-> "Large number of changes"],
                       [cond |-> fileCount > 20, text |-> "Many files modified"],
                       [cond |-> ~hasTests, text |-> "No test files modified"],
                       [cond |-> coreFiles, text |-> "Core configuration files modified"]>>)
        issueText == JoinIssues(issues)
        prText == PRText(prData)
        keywordMatches ==
            Cardinality({k \in 1..Len(Keywords) :
                HasWord(issueText, Keywords[k]) /\ HasWord(prText, Keywords[k])})
        prDescription == prData.body
        prTitle == prData.title
        noText == TrimEmpty(prDescription) /\ TrimEmpty(prTitle)
        hasDescription == StrLen(prDescription) > 50
        titleQuality == StrLen(prTitle) > 10 /\ StrLen(prTitle) < 100
        \* Math.floor(Math.min(10, totalChanges / 10) / 2)
        changePoints ==
            IF totalChanges >= 100 THEN 5 ELSE totalChanges \div 20
        correctnessScore ==
            IF hasIssues
            THEN MinOf(10, MaxOf(1, keywordMatches * 2 + BoolNum(hasTests, 2)))
            ELSE IF noText THEN 3
            ELSE MinOf(10, MaxOf(2, (IF hasDescription THEN 4 ELSE 2)
                                     + BoolNum(titleQuality, 2)
                                     + changePoints
                                     + BoolNum(hasTests, 2)))
        completenessScore ==
            IF hasIssues
            THEN MinOf(10, MaxOf(1, (IF Len(issues) <= 2 THEN 8 ELSE 6)
                                     + BoolNum(hasDocumentation, 1)
                                     + BoolNum(hasTests, 1)))
            ELSE IF noText THEN 3
            ELSE MinOf(10, MaxOf(2, correctnessScore - 1 + BoolNum(hasDocumentation, 1)))
        missingRequirements ==
            IF hasIssues
            THEN (IF Len(riskFactors) > 0
                  THEN "Potential concerns identified through heuristic analysis"
                  ELSE "None identified with basic analysis")
            ELSE IF noText
            THEN "No PR description provided to compare against code changes"
            ELSE IF ~hasDescription
            THEN "No detailed PR description provided - cannot verify if all intended changes are implemented"
            ELSE IF Len(riskFactors) > 0
            THEN "Some potential concerns identified"
            ELSE "Analysis limited without linked issues for detailed requirements"
        implementationQuality ==
            IF hasIssues THEN "Basic analysis with linked issues"
            ELSE IF noText
            THEN "Cannot assess implementation quality without clear description of intended changes"
            ELSE "Basic analysis without linked issues"
        recommendations ==
            Truthies(<<[cond |-> ~hasTests, text |-> RecTests],
                       [cond |-> ~hasDocumentation /\ totalChanges > 100, text |-> RecDocs],
                       [cond |-> totalChanges > 300, text |-> RecSplit],
                       [cond |-> Len(riskFactors) > 2, text |-> RecHighRisk],
                       [cond |-> ~hasIssues, text |-> RecLinkIssues],
                       [cond |-> ~hasIssues /\ StrLen(prData.body) < 50,
                        text |-> RecDescription]>>)
    IN [correctness_score      |-> Num(correctnessScore),
        completeness_score     |-> Num(completenessScore),
        risk_level             |->
            Str(RiskLevelOf(Len(riskFactors))),
        missing_requirements   |-> Str(missingRequirements),
        implementation_quality |-> Str(implementationQuality),
        recommendations        |-> recommendations,
        analysis_type          |->
            IF hasIssues THEN "Basic Heuristic (with Issues)"
            ELSE "Basic Heuristic (PR Description Based)",
        risk_factors           |-> riskFactors]

NoEnv ==
    [present |-> FALSE, anthropicApiKey |-> FALSE,
     shouldComment |-> FALSE, updateExisting |-> FALSE]

NoOutputs == [success |-> "", risk_level |-> Undef, comment_posted |-> ""]

(***************************************************************************)
(* generateComment                                                         *)
(*                                                                         *)
(* A comment body is a record of what the template prints: the heading,    *)
(* the analysis time, the values and the names of the sections.            *)
(***************************************************************************)
Heading == "## PR Issue Correctness Analysis"

QuotedHeading == "> ## PR Issue Correctness Analysis"

OtherHeading == "LGTM"

FailedHeading == "## PR Analysis Failed"

Body(heading) ==
    [heading |-> heading, time |-> 0, linkedIssues |-> <<>>, analysis_type |-> "",
     correctness_score |-> Undef, completeness_score |-> Undef, risk_level |-> Undef,
     sections |-> <<>>, recommendations |-> <<>>]

\* body.includes('PR Issue Correctness Analysis')
IncludesMarker(body) == body.heading \in {Heading, QuotedHeading}

\* the names of the sections whose condition holds
Sections(entries) ==
    LET kept == SelectSeq(entries, LAMBDA e : e.cond)
    IN [i \in 1..Len(kept) |-> kept[i].text]

\* rec.trim() of `rec && rec.trim()` throws: rec is truthy and no string
TrimThrows(recs) == \E i \in 1..Len(recs) : Truthy(recs[i]) /\ recs[i].k # "str"

\* generateComment(result, prNumber) at clock reading now: [threw, body]
generateComment(res, now) ==
    IF ~res.success THEN [threw |-> FALSE, body |-> Body(FailedHeading)]
    ELSE LET analysis == res.analysis
             noIssues == Len(analysis.linkedIssues) = 0
         IN [threw |-> TrimThrows(analysis.recommendations),
             body |->
                [heading           |-> Heading,
                 time              |-> now,
                 linkedIssues      |-> analysis.linkedIssues,
                 analysis_type     |-> analysis.analysis_type,
                 correctness_score |-> analysis.correctness_score,
                 completeness_score |-> analysis.completeness_score,
                 risk_level        |-> analysis.risk_level,
                 sections          |->
                    Sections(<<
                       [cond |-> /\ analysis.correctness_score = Str("N/A")
                                 /\ analysis.missing_requirements
                                       = Str("No meaningful code changes detected"),
                        text |-> "No Meaningful Changes Detected"],
                       [cond |-> noIssues, text |-> "Analysis Method"],
                       [cond |-> /\ Truthy(analysis.missing_requirements)
                                 /\ analysis.missing_requirements # Str("None identified"),
                        text |-> "Missing Requirements"],
                       [cond |-> Truthy(analysis.implementation_quality),
                        text |-> "Implementation Quality"],
                       [cond |-> Len(analysis.recommendations) > 0,
                        text |-> "Recommendations"],
                       [cond |-> analysis.risk_level = Str("HIGH"),
                        text |-> "High Risk Notice"],
                       [cond |-> noIssues, text |-> "Future Recommendations"]>>),
                 recommendations   |->
                    SelectSeq(analysis.recommendations, LAMBDA rec : Truthy(rec))]]

(***************************************************************************)
(* analyzePR                                                               *)
(***************************************************************************)
Failure(message) == [success |-> FALSE, error |-> message, analysis |-> <<>>]

\* Success with linkedIssues cut down to the issues that were fetched
SuccessFetchedOnly(analysis, linkedIssues, prData) ==
    [success |-> TRUE,
     error |-> "",
     analysis |->
        [linkedIssues |->
            SelectSeq(linkedIssues,
                      LAMBDA n : \E i \in 1..Len(issueList) : issueList[i].number = n),
         prData |-> [title |-> prData.title]]
        @@ analysis]

\* { success: true, error: null, analysis: { ...analysis, linkedIssues, prData } }
Success(analysis, linkedIssues, prData) ==
    [success |-> TRUE,
     error |-> "",
     analysis |-> [linkedIssues |-> linkedIssues, prData |-> [title |-> prData.title]]
                  @@ analysis]

\* the canned analysis of a pull request without meaningful changes
NoChangesAnalysis ==
    [correctness_score      |-> Str("N/A"),
     completeness_score     |-> Str("N/A"),
     risk_level             |-> Str("LOW"),
     missing_requirements   |-> Str("No meaningful code changes detected"),
     implementation_quality |-> Str("No substantial changes to review"),
     recommendations        |->
        <<Str("This PR appears to contain minimal or no code changes"),
          Str("Consider adding meaningful changes or closing if this PR was created in error")>>,
     analysis_type          |-> "No Changes Analysis"]

\* NoChangesToAnalyze without the test of the issue numbers
NoChangesToAnalyzeAnyIssues(fileChanges, issueNumbers) ==
    ~hasMeaningfulChanges(fileChanges)

\* NoChangesToAnalyze with the test of the issue numbers inverted
NoChangesToAnalyzeInverted(fileChanges, issueNumbers) ==
    ~hasMeaningfulChanges(fileChanges) /\ Len(issueNumbers) # 0

\* !meaningfulChanges && issueNumbers.length === 0
NoChangesToAnalyze(fileChanges, issueNumbers) ==
    ~hasMeaningfulChanges(fileChanges) /\ Len(issueNumbers) = 0

\* analyzeWithClaudeNoIssues, given the reply [ok, text] to its request
analyzeWithClaudeNoIssues(prData, fileChanges, reply) ==
    IF reply.ok THEN parseClaudeResponse(reply.text)
    ELSE performBasicAnalysis(prData, <<>>, fileChanges)

\* analyzeWithClaude falling back as analyzeWithClaudeNoIssues does
analyzeWithClaudeDropIssues(prData, issues, fileChanges, reply) ==
    IF reply.ok THEN parseClaudeResponse(reply.text)
    ELSE performBasicAnalysis(prData, <<>>, fileChanges)

\* analyzeWithClaude, given the reply [ok, text] to its request
analyzeWithClaude(prData, issues, fileChanges, reply) ==
    IF reply.ok THEN parseClaudeResponse(reply.text)
    ELSE performBasicAnalysis(prData, issues, fileChanges)

(***************************************************************************)
(* The run: main, analyzePR and postOrUpdateComment, one step per request  *)
(***************************************************************************)
Comment(id, login, type, body) ==
    [id |-> id, user |-> [login |-> login, type |-> type], body |-> body]

Ev(req, ok, arg) == [req |-> req, ok |-> ok, arg |-> arg]

Count(lg, req) == Cardinality({i \in 1..Len(lg) : lg[i].req = req})

\* a run that posted its comment with update-existing and saw no request fail
RunClean(lg) ==
    /\ env.present /\ env.shouldComment /\ env.updateExisting
    /\ \A i \in 1..Len(lg) : lg[i].ok
    /\ \E i \in 1..Len(lg) : lg[i].req \in {"PATCH comment", "POST comment"}

\* the process ends with the exit status code
Exit(code, lg) ==
    /\ pc' = "exited"
    /\ exitCode' = code
    /\ log' = lg
    /\ clean' = (clean /\ code = 0 /\ RunClean(lg))

\* FailedRun without the early return: main goes on to render the failure
\* comment and to publish it
FailedRunFallsThrough(lg) ==
    /\ comment' = <<Body(FailedHeading)>>
    /\ outputs' = [success |-> "false", risk_level |-> Str("UNKNOWN"),
                   comment_posted |-> ""]
    /\ IF env.shouldComment
       THEN /\ pc' = IF env.updateExisting THEN "findExistingComment"
                     ELSE "createComment"
            /\ exitCode' = exitCode
            /\ log' = lg
            /\ clean' = clean
       ELSE Exit(0, lg)

\* main when analyzePR returned a failure: the failure outputs, then return
FailedRun(lg) ==
    /\ comment' = <<>>
    /\ outputs' = [success |-> "false", risk_level |-> Str("UNKNOWN"),
                   comment_posted |-> "false"]
    /\ Exit(0, lg)

\* main from the return of analyzePR to the first publishing request or to
\* the end of the process
MainResume(res, lg) ==
    /\ result' = <<res>>
    /\ IF ~res.success
       THEN FailedRun(lg)
       ELSE LET c == generateComment(res, run) IN
            IF c.threw
            THEN /\ comment' = <<>>
                 /\ outputs' = outputs
                 /\ Exit(1, lg)
            ELSE /\ comment' = <<c.body>>
                 /\ IF env.shouldComment
                    THEN /\ outputs' = [success |-> "true",
                                        risk_level |-> res.analysis.risk_level,
                                        comment_posted |-> ""]
                         /\ pc' = IF env.updateExisting THEN "findExistingComment"
                                  ELSE "createComment"
                         /\ exitCode' = exitCode
                         /\ log' = lg
                         /\ clean' = clean
                    ELSE /\ outputs' = [success |-> "true",
                                        risk_level |-> res.analysis.risk_level,
                                        comment_posted |-> "false"]
                         /\ Exit(0, lg)

\* PostResume without the catch of postOrUpdateComment and without the one
\* around its call in main: the error reaches the outer catch of main
PostResumeUncaught(commentPosted, lg) ==
    IF commentPosted
    THEN outputs' = [outputs EXCEPT !.comment_posted = "true"] /\ Exit(0, lg)
    ELSE outputs' = outputs /\ Exit(1, lg)

\* main from the return of postOrUpdateComment to the end of the process
PostResume(commentPosted, lg) ==
    /\ outputs' = [outputs EXCEPT
                      !.comment_posted = IF commentPosted THEN "true" ELSE "false"]
    /\ Exit(0, lg)

\* the issue the host returns for a number
IssueOnHost(n) ==
    [number |-> n, title |-> IF n = 1 THEN <<"fix">> ELSE <<"add">>, body |-> <<"x">>]

Envs ==
    [present : BOOLEAN, anthropicApiKey : BOOLEAN,
     shouldComment : BOOLEAN, updateExisting : BOOLEAN]

\* the process starts: the environment is read and checked
Start(e) ==
    /\ run' = run + 1
    /\ env' = e
    /\ issueNums' = <<>>
    /\ issueList' = <<>>
    /\ fileList' = <<>>
    /\ result' = <<>>
    /\ comment' = <<>>
    /\ target' = 0
    /\ outputs' = NoOutputs
    /\ log' = <<>>
    /\ listed' = <<>>
    /\ IF e.present
       THEN pc' = "fetchPRData" /\ exitCode' = -1 /\ clean' = clean
       ELSE pc' = "exited" /\ exitCode' = 1 /\ clean' = FALSE
    /\ UNCHANGED <<hostVars, exVars, rspVars,
                   basicVars, pub>>

\* the first run against the pull request starts
StartRun(e) ==
    /\ pc = "idle"
    /\ Start(e)

\* a further run starts after the run before it has ended
NextRun(e) ==
    /\ pc = "exited"
    /\ run < MaxRuns
    /\ Start(e)

\* the reply to fetchPRData arrives; on success extractIssueNumbers runs
FetchPRData(outcome) ==
    /\ pc = "fetchPRData"
    /\ IF outcome = "ok"
       THEN /\ issueNums' = extractIssueNumbers(pull)
            /\ pc' = IF Len(issueNums') > 0 THEN "fetchIssues" ELSE "fetchPRFiles"
            /\ log' = Append(log, Ev("GET pull", TRUE, 0))
            /\ UNCHANGED <<result, comment, outputs, exitCode, clean>>
       ELSE /\ MainResume(Failure("Failed to fetch PR data"),
                          Append(log, Ev("GET pull", FALSE, 0)))
            /\ UNCHANGED issueNums
    /\ UNCHANGED <<hostVars, run, env, issueList, fileList, target, listed,
                   exVars, rspVars,
                   basicVars, pub>>

\* the reply to one request of the loop of fetchIssues arrives
FetchIssue(outcome) ==
    /\ pc = "fetchIssues"
    /\ LET issueNumber == issueNums[Count(log, "GET issue") + 1] IN
       /\ issueList' = IF outcome = "ok"
                       THEN Append(issueList, IssueOnHost(issueNumber))
                       ELSE issueList
       /\ log' = Append(log, Ev("GET issue", outcome = "ok", issueNumber))
       /\ pc' = IF Count(log', "GET issue") = Len(issueNums) THEN "fetchPRFiles"
                ELSE "fetchIssues"
    /\ UNCHANGED <<hostVars, run, env, issueNums, fileList, result, comment, target,
                   outputs, exitCode, listed, clean, exVars, rspVars,
                   basicVars, pub>>

\* the reply to fetchPRFiles arrives; analyzePR goes on to its model request
\* or to its return
FetchPRFiles(outcome) ==
    /\ pc = "fetchPRFiles"
    /\ IF outcome # "ok"
       THEN /\ MainResume(Failure("Failed to fetch PR files"),
                          Append(log, Ev("GET files", FALSE, 0)))
            /\ UNCHANGED fileList
       ELSE LET lg == Append(log, Ev("GET files", TRUE, 0)) IN
            /\ fileList' = files
            /\ IF NoChangesToAnalyze(files, issueNums)
               THEN MainResume(Success(NoChangesAnalysis, issueNums, pull), lg)
               ELSE IF env.anthropicApiKey
               THEN /\ pc' = "callClaude"
                    /\ log' = lg
                    /\ UNCHANGED <<result, comment, outputs, exitCode, clean>>
               ELSE MainResume(
                        Success(performBasicAnalysis(pull, issueList, files),
                                issueNums, pull),
                        Append(lg, Ev("performBasicAnalysis", TRUE, 0)))
    /\ UNCHANGED <<hostVars, run, env, issueNums, issueList, target, listed,
                   exVars, rspVars,
                   basicVars, pub>>

\* the reply to the model request arrives; analyzePR returns
CallClaude(outcome, text) ==
    /\ pc = "callClaude"
    /\ LET reply == [ok |-> outcome = "ok", text |-> text]
           analysis == IF Len(issueNums) = 0
                       THEN analyzeWithClaudeNoIssues(pull, fileList, reply)
                       ELSE analyzeWithClaude(pull, issueList, fileList, reply)
           lg == Append(log, Ev("POST model", reply.ok, 0))
       IN MainResume(Success(analysis, issueNums, pull),
                     IF reply.ok THEN lg
                     ELSE Append(lg, Ev("performBasicAnalysis", TRUE, 0)))
    /\ UNCHANGED <<hostVars, run, env, issueNums, issueList, fileList, target, listed,
                   exVars, rspVars,
                   basicVars, pub>>

\* FindBotComment without the test of the author type
FindAnyComment(list) ==
    LET at == {i \in 1..Len(list) : IncludesMarker(list[i].body)}
    IN IF at = {} THEN 0 ELSE CHOOSE x \in at : \A y \in at : x <= y

\* FindBotComment with the test of the author type against 'bot'
FindLowerCaseBot(list) ==
    LET at == {i \in 1..Len(list) :
                  list[i].user.type = "bot" /\ IncludesMarker(list[i].body)}
    IN IF at = {} THEN 0 ELSE CHOOSE x \in at : \A y \in at : x <= y

\* comments.find(c => c.user.type === 'Bot' && c.body.includes(marker)): the
\* index of the first such comment, 0 if there is none
FindBotComment(list) ==
    LET at == {i \in 1..Len(list) :
                  list[i].user.type = "Bot" /\ IncludesMarker(list[i].body)}
    IN IF at = {} THEN 0 ELSE CHOOSE x \in at : \A y \in at : x <= y

\* the reply to findExistingComment's request arrives
FindExistingComment(outcome) ==
    /\ pc = "findExistingComment"
    /\ IF outcome # "ok"
       THEN /\ PostResume(FALSE, Append(log, Ev("GET comments", FALSE, 0)))
            /\ UNCHANGED <<target, listed>>
       ELSE /\ listed' = <<comments>>
            /\ target' = IF FindBotComment(comments) = 0 THEN 0
                         ELSE comments[FindBotComment(comments)].id
            /\ pc' = IF target' # 0 THEN "updateComment" ELSE "createComment"
            /\ log' = Append(log, Ev("GET comments", TRUE, 0))
            /\ UNCHANGED <<outputs, exitCode, clean>>
    /\ UNCHANGED <<hostVars, run, env, issueNums, issueList, fileList, result, comment,
                   exVars, rspVars,
                   basicVars, pub>>

\* UpdateComment with a failed update falling back to createComment
UpdateCommentThenCreate(outcome) ==
    /\ pc = "updateComment"
    /\ IF outcome = "ok"
       THEN /\ comments' = [i \in 1..Len(comments) |->
                               IF comments[i].id = target
                               THEN [comments[i] EXCEPT !.body = comment[1]]
                               ELSE comments[i]]
            /\ PostResume(TRUE, Append(log, Ev("PATCH comment", TRUE, target)))
       ELSE /\ comments' = comments
            /\ pc' = "createComment"
            /\ log' = Append(log, Ev("PATCH comment", FALSE, target))
            /\ UNCHANGED <<outputs, exitCode, clean>>
    /\ UNCHANGED <<pull, files, tokenType, run, env, issueNums, issueList, fileList,
                   result, comment, target, listed, exVars, rspVars,
                   basicVars, pub>>

\* the reply to updateComment's request arrives
UpdateComment(outcome) ==
    /\ pc = "updateComment"
    /\ comments' = IF outcome = "ok"
                   THEN [i \in 1..Len(comments) |->
                            IF comments[i].id = target
                            THEN [comments[i] EXCEPT !.body = comment[1]]
                            ELSE comments[i]]
                   ELSE comments
    /\ PostResume(outcome = "ok",
                  Append(log, Ev("PATCH comment", outcome = "ok", target)))
    /\ UNCHANGED <<pull, files, tokenType, run, env, issueNums, issueList, fileList,
                   result, comment, target, listed, exVars, rspVars,
                   basicVars, pub>>

\* the reply to createComment's request arrives
CreateComment(outcome) ==
    /\ pc = "createComment"
    /\ comments' = IF outcome = "ok"
                   THEN Append(comments,
                               Comment(Len(comments) + 1, "checker", tokenType,
                                       comment[1]))
                   ELSE comments
    /\ PostResume(outcome = "ok",
                  Append(log, Ev("POST comment", outcome = "ok", Len(comments) + 1)))
    /\ UNCHANGED <<pull, files, tokenType, run, env, issueNums, issueList, fileList,
                   result, comment, target, listed, exVars, rspVars,
                   basicVars, pub>>

\* somebody else comments on the pull request
OtherComment(type, heading) ==
    /\ Cardinality({i \in 1..Len(comments) : comments[i].user.login = "other"})
          < MaxOtherComments
    /\ comments' = Append(comments,
                          Comment(Len(comments) + 1, "other", type, Body(heading)))
    /\ UNCHANGED <<pull, files, tokenType, runVars, histVars, exVars, rspVars,
                   basicVars, pub>>

(***************************************************************************)
(* The pull requests, file lists and model responses of the runs           *)
(***************************************************************************)
PullRequests ==
    {[title |-> <<>>, body |-> <<>>],
     [title |-> <<"x">>, body |-> <<"para">>],
     [title |-> <<"fix", " ", "#", "1">>, body |-> <<>>],
     [title |-> <<"add", " ", "fix", " ", "2">>, body |-> <<"#", "1", " ", "#", "1">>]}

File(filename, n) == [filename |-> filename, changes |-> n]

FileLists ==
    {<<>>,
     <<File(<<"README", ".", "md">>, 2)>>,
     <<File(<<"README", ".", "md">>, 2), File(<<"src", "/", "app", ".", "ts">>, 120)>>,
     <<File(<<"test", "/", "app", ".", "test", ".", "ts">>, 30),
       File(<<"package", ".", "json">>, 600)>>}

ModelTexts ==
    {<<Tok("prose"),
       Tok("{"),
       Member("correctness_score", Num(8)), Member("completeness_score", Num(7)),
       Member("risk_level", Str("HIGH")), Member("missing_requirements", Str("gap")),
       Member("implementation_quality", Str("good")),
       Member("recommendations", Arr(<<Str("rec")>>)),
       Tok("}"),
       Tok("prose")>>,
     <<Tok("{"), Tok("}")>>,
     <<Tok("{"), Member("recommendations", Arr(<<Num(1)>>)), Tok("}")>>,
     <<Tok("{"), Member("recommendations", Arr(<<Null, Str("rec")>>)), Tok("}")>>,
     <<Tok("{"), Member("correctness_score", Num(8)), Tok("prose"), Tok("}")>>,
     <<Tok("prose")>>,
     <<Section("CORRECTNESS_SCORE", ": ", Num(7)),
       Section("RISK_LEVEL", ":", Str("high"))>>}

Outcomes == {"ok", "status", "throw"}

\* the comments a pull request carries when a run starts: comments of other
\* accounts and comments of earlier runs of the checker
InitialComments ==
    {<<>>,
     <<Comment(1, "other", "User", Body(QuotedHeading))>>,
     <<Comment(1, "other", "Bot", Body(OtherHeading))>>,
     <<Comment(1, "checker", "Bot", Body(Heading))>>,
     <<Comment(1, "checker", "User", Body(Heading))>>,
     <<Comment(1, "other", "User", Body(QuotedHeading)),
       Comment(2, "other", "Bot", Body(OtherHeading)),
       Comment(3, "checker", "Bot", Body(Heading)),
       Comment(4, "checker", "Bot", Body(Heading))>>}

\* no run has started
RunIdle ==
    /\ pc = "idle"
    /\ run = 0
    /\ env = NoEnv
    /\ issueNums = <<>>
    /\ issueList = <<>>
    /\ fileList = <<>>
    /\ result = <<>>
    /\ comment = <<>>
    /\ target = 0
    /\ outputs = NoOutputs
    /\ exitCode = -1
    /\ log = <<>>
    /\ listed = <<>>
    /\ clean = TRUE

BasicIdle ==
    /\ basicArgs = <<>>
    /\ basicOut = <<>>

\* no overlapping runs
OverlapIdle == pub = <<>>

\* no call of the extraction check, of the parser check or of the scoring check
ChecksIdle ==
    /\ exTitle = <<>>
    /\ exBody = <<>>
    /\ exOut = <<>>
    /\ rsp = <<>>
    /\ rspOut = <<>>
    /\ BasicIdle

\* the pipeline at rest: no pull request, no run
PipeIdle ==
    /\ pull = [title |-> <<>>, body |-> <<>>]
    /\ files = <<>>
    /\ comments = <<>>
    /\ tokenType = "Bot"
    /\ RunIdle

(***************************************************************************)
(* Spec: one run against a pull request and the comments it carries        *)
(***************************************************************************)
Init ==
    /\ pull \in PullRequests
    /\ files \in FileLists
    /\ comments \in InitialComments
    /\ tokenType \in {"Bot", "User"}
    /\ RunIdle
    /\ ChecksIdle
    /\ OverlapIdle

Next ==
    \/ \E e \in Envs : StartRun(e)
    \/ \E outcome \in Outcomes : FetchPRData(outcome)
    \/ \E outcome \in Outcomes : FetchIssue(outcome)
    \/ \E outcome \in Outcomes : FetchPRFiles(outcome)
    \/ \E outcome \in Outcomes \ {"ok"} : CallClaude(outcome, <<>>)
    \/ \E text \in ModelTexts : CallClaude("ok", text)
    \/ \E outcome \in Outcomes : FindExistingComment(outcome)
    \/ \E outcome \in Outcomes : UpdateComment(outcome)
    \/ \E outcome \in Outcomes : CreateComment(outcome)

(***************************************************************************)
(* SpecRuns: runs one after the other against a pull request that starts   *)
(* without comments, while other accounts comment                          *)
(***************************************************************************)
RunsInit ==
    /\ pull \in {pr \in PullRequests : Len(pr.title) = 1}
    /\ files \in {fl \in FileLists : Len(fl) > 0}
    /\ comments = <<>>
    /\ tokenType \in {"Bot", "User"}
    /\ RunIdle
    /\ ChecksIdle
    /\ OverlapIdle

RunsEnvs == {e \in Envs : e.present /\ e.shouldComment}

RunsTexts == {text \in ModelTexts : Len(text) = 3}

RunsNext ==
    \/ \E e \in RunsEnvs : StartRun(e)
    \/ \E e \in RunsEnvs : NextRun(e)
    \/ FetchPRData("ok")
    \/ FetchPRFiles("ok")
    \/ \E outcome \in {"ok", "status"}, text \in RunsTexts : CallClaude(outcome, text)
    \/ FindExistingComment("ok")
    \/ \E outcome \in {"ok", "status"} : UpdateComment(outcome)
    \/ CreateComment("ok")
    \/ \E type \in {"Bot", "User"}, heading \in {OtherHeading, QuotedHeading} :
          OtherComment(type, heading)

(***************************************************************************)
(* SpecChanges: one run without model credential and without posting,      *)
(* against pull requests whose file lists are drawn from ChangedFiles      *)
(***************************************************************************)
\* the sequences over S of length at most n
RECURSIVE SeqsUpTo(_, _)
SeqsUpTo(S, n) ==
    IF n = 0 THEN {<<>>}
    ELSE LET shorter == SeqsUpTo(S, n - 1) IN
         shorter \cup {Append(s, c) : s \in shorter, c \in S}

ChangeNames ==
    {<<"README", ".", "md">>, <<"src", "/", "app", ".", "ts">>,
     <<"app", ".", "test", ".", "ts">>, <<"package", ".", "json">>}

ChangeCounts == {0, 1, 2, 6, 120, 301}

ChangedFiles == {File(name, n) : name \in ChangeNames, n \in ChangeCounts}

ChangesInit ==
    /\ pull \in {pr \in PullRequests : Len(pr.title) \in {1, 4}}
    /\ files \in SeqsUpTo(ChangedFiles, MaxFiles)
    /\ comments = <<>>
    /\ tokenType = "Bot"
    /\ RunIdle
    /\ ChecksIdle
    /\ OverlapIdle

ChangesEnvs ==
    {e \in Envs : e.present /\ ~e.anthropicApiKey /\ ~e.shouldComment /\ e.updateExisting}

ChangesNext ==
    \/ \E e \in ChangesEnvs : StartRun(e)
    \/ FetchPRData("ok")
    \/ \E outcome \in {"ok", "status"} : FetchIssue(outcome)
    \/ FetchPRFiles("ok")

(***************************************************************************)
(* The extraction check: extractIssueNumbers applied to drawn PR texts     *)
(***************************************************************************)
ExAlphabet == {"#", "1", "2", " ", "x", "fix"}

ExBodies ==
    {<<>>, <<"1">>, <<"#", "1">>, <<"fix", " ", "#", "2">>, <<"#", "2", " ", "#", "2">>}

ExtractInit ==
    /\ PipeIdle
    /\ BasicIdle
    /\ OverlapIdle
    /\ rsp = <<>>
    /\ rspOut = <<>>
    /\ exTitle \in SeqsUpTo(ExAlphabet, MaxTitleLen)
    /\ exBody \in ExBodies
    /\ exOut = <<>>

ExtractCall ==
    /\ exOut = <<>>
    /\ exOut' = <<extractIssueNumbers([title |-> exTitle, body |-> exBody])>>
    /\ UNCHANGED <<exTitle, exBody, rspVars, basicVars, pub, pipeVars>>

(***************************************************************************)
(* The parser check: parseClaudeResponse applied to drawn model responses  *)
(***************************************************************************)
ScoreVals == {Undef, Str("8")} \cup {Num(n) : n \in 0..10}

RiskVals == {Undef, Num(1), Str("LOW"), Str("MEDIUM"), Str("HIGH")}

NarrativeVals == {Undef, Str("narrative")}

RecommendationVals ==
    {Undef, Null, Num(5), Str("rec"),
     Arr(<<>>), Arr(<<Str("rec")>>), Arr(<<Str("rec"), Str("more")>>),
     Arr(<<Num(1)>>), Arr(<<Null, Str("rec")>>)}

\* a member of the object text, nothing when the key is absent
MemberOf(key, val) == IF val = Undef THEN <<>> ELSE <<Member(key, val)>>

ObjectText(c, p, r, m, q, recs) ==
    <<Tok("{")>>
        \o MemberOf("correctness_score", c) \o MemberOf("completeness_score", p)
        \o MemberOf("risk_level", r) \o MemberOf("missing_requirements", m)
        \o MemberOf("implementation_quality", q) \o MemberOf("recommendations", recs)
        \o <<Tok("}")>>

ObjectTexts ==
    {ObjectText(c, p, r, m, q, recs) :
        c \in ScoreVals, p \in ScoreVals, r \in RiskVals,
        m \in NarrativeVals, q \in NarrativeVals, recs \in RecommendationVals}

\* the text around an object: nothing, prose, prose with a brace of its own
Surroundings ==
    {<<<<>>, <<>>>>,
     <<<<Tok("prose")>>, <<Tok("prose")>>>>,
     <<<<Tok("prose")>>, <<Tok("prose"), Tok("}")>>>>}

ProseResponses ==
    {<<>>,
     <<Tok("prose")>>,
     <<Tok("{"), Tok("prose"), Tok("}")>>,
     <<Tok("}"), Tok("prose"), Tok("{")>>,
     <<Section("CORRECTNESS_SCORE", ": ", Num(7)),
       Section("RISK_LEVEL", ": ", Str("HIGH")),
       Section("RECOMMENDATIONS", ": ", Str("rec"))>>,
     <<Section("RISK_LEVEL", ":", Str("high")),
       Section("COMPLETENESS_SCORE", ":", Str("good")),
       Section("COMPLETENESS_SCORE", ":", Num(4)),
       Section("MISSING_REQUIREMENTS", ": ", Str("gap")),
       Section("RECOMMENDATIONS", ": ", Str(""))>>}

Responses ==
    ProseResponses \cup {sr[1] \o o \o sr[2] : sr \in Surroundings, o \in ObjectTexts}

ParseInit ==
    /\ PipeIdle
    /\ BasicIdle
    /\ OverlapIdle
    /\ exTitle = <<>>
    /\ exBody = <<>>
    /\ exOut = <<>>
    /\ rsp \in Responses
    /\ rspOut = <<>>

ParseCall ==
    /\ rspOut = <<>>
    /\ rspOut' = <<parseClaudeResponse(rsp)>>
    /\ UNCHANGED <<rsp, exVars, basicVars, pub, pipeVars>>

(***************************************************************************)
(* The scoring check: performBasicAnalysis applied to drawn arguments      *)
(***************************************************************************)
BasicTitles ==
    {<<>>, <<" ">>, <<"x">>, <<"update", "create">>, <<"para", "para">>, Keywords}

BasicBodies == {<<>>, <<" ">>, <<"x">>, <<"para">>}

BasicPulls == [title : BasicTitles, body : BasicBodies]

\* n issues whose titles hold the first j keywords
IssuesWith(n, j) ==
    [i \in 1..n |-> [number |-> i, title |-> SubSeq(Keywords, 1, j), body |-> <<"x">>]]

BasicIssueLists == {IssuesWith(n, j) : n \in 0..MaxIssues, j \in 0..Len(Keywords)}

BasicCodeChanges == {0, 19, 20, 45, 99, 100, 1000}

BasicFileLists ==
    {<<>>} \cup
    {<<File(<<"src", "/", "app", ".", "ts">>, n)>> \o t \o d :
        n \in BasicCodeChanges,
        t \in {<<>>, <<File(<<"app", ".", "test", ".", "ts">>, 1)>>},
        d \in {<<>>, <<File(<<"docs", "/", "guide">>, 1)>>}}

BasicInit ==
    /\ PipeIdle
    /\ OverlapIdle
    /\ exTitle = <<>>
    /\ exBody = <<>>
    /\ exOut = <<>>
    /\ rsp = <<>>
    /\ rspOut = <<>>
    /\ basicArgs \in {<<[prData |-> p, issues |-> i, fileChanges |-> f]>> :
                          p \in BasicPulls, i \in BasicIssueLists, f \in BasicFileLists}
    /\ basicOut = <<>>

BasicCall ==
    /\ basicOut = <<>>
    /\ basicOut' = <<performBasicAnalysis(basicArgs[1].prData, basicArgs[1].issues,
                                          basicArgs[1].fileChanges)>>
    /\ UNCHANGED <<basicArgs, exVars, rspVars, pub, pipeVars>>

(***************************************************************************)
(* SpecOverlap: runs against the same pull request that overlap in time.   *)
(* Each run has rendered its comment and calls postOrUpdateComment with    *)
(* update-existing; the requests of the runs interleave freely.            *)
(***************************************************************************)
Runs == 1..MaxOverlap

\* the comment run p rendered
RunBody(p) == [Body(Heading) EXCEPT !.time = p]

\* the call of run p before its first request
Publishing(p) ==
    [pc |-> "findExistingComment", target |-> 0, listed |-> <<>>, wrote |-> "",
     returned |-> ""]

\* the call of run p returns
Returned(call, value) == [call EXCEPT !.pc = "returned", !.returned = value]

\* the reply to the comment-list request of run p arrives
OverlapFind(p, outcome) ==
    /\ pub[p].pc = "findExistingComment"
    /\ pub' = [pub EXCEPT ![p] =
                  IF outcome # "ok" THEN Returned(@, "false")
                  ELSE [@ EXCEPT
                          !.listed = <<comments>>,
                          !.target = IF FindBotComment(comments) = 0 THEN 0
                                     ELSE comments[FindBotComment(comments)].id,
                          !.pc = IF FindBotComment(comments) = 0 THEN "createComment"
                                 ELSE "updateComment"]]
    /\ UNCHANGED <<pipeVars, exVars, rspVars, basicVars>>

\* the reply to the update request of run p arrives
OverlapUpdate(p, outcome) ==
    /\ pub[p].pc = "updateComment"
    /\ comments' = IF outcome = "ok"
                   THEN [i \in 1..Len(comments) |->
                            IF comments[i].id = pub[p].target
                            THEN [comments[i] EXCEPT !.body = RunBody(p)]
                            ELSE comments[i]]
                   ELSE comments
    /\ pub' = [pub EXCEPT ![p] =
                  IF outcome = "ok" THEN Returned([@ EXCEPT !.wrote = "PATCH"], "true")
                  ELSE Returned(@, "false")]
    /\ UNCHANGED <<pull, files, tokenType, runVars, histVars, exVars, rspVars,
                   basicVars>>

\* OverlapCreate that reuses a comment with the marker created meanwhile
OverlapCreateOrReuse(p, outcome) ==
    /\ pub[p].pc = "createComment"
    /\ comments' = IF outcome # "ok" THEN comments
                   ELSE IF FindBotComment(comments) = 0
                   THEN Append(comments,
                               Comment(Len(comments) + 1, "checker", tokenType,
                                       RunBody(p)))
                   ELSE [comments EXCEPT ![FindBotComment(comments)].body = RunBody(p)]
    /\ pub' = [pub EXCEPT ![p] =
                  IF outcome = "ok" THEN Returned([@ EXCEPT !.wrote = "POST"], "true")
                  ELSE Returned(@, "false")]
    /\ UNCHANGED <<pull, files, tokenType, runVars, histVars, exVars, rspVars,
                   basicVars>>

\* the reply to the create request of run p arrives
OverlapCreate(p, outcome) ==
    /\ pub[p].pc = "createComment"
    /\ comments' = IF outcome = "ok"
                   THEN Append(comments,
                               Comment(Len(comments) + 1, "checker", tokenType,
                                       RunBody(p)))
                   ELSE comments
    /\ pub' = [pub EXCEPT ![p] =
                  IF outcome = "ok" THEN Returned([@ EXCEPT !.wrote = "POST"], "true")
                  ELSE Returned(@, "false")]
    /\ UNCHANGED <<pull, files, tokenType, runVars, histVars, exVars, rspVars,
                   basicVars>>

OverlapInit ==
    /\ pull = [title |-> <<>>, body |-> <<>>]
    /\ files = <<>>
    /\ comments \in {c \in InitialComments : Len(c) <= 1}
    /\ tokenType \in {"Bot", "User"}
    /\ RunIdle
    /\ ChecksIdle
    /\ pub = [p \in Runs |-> Publishing(p)]

OverlapNext ==
    \E p \in Runs, outcome \in {"ok", "status"} :
        \/ OverlapFind(p, outcome)
        \/ OverlapUpdate(p, outcome)
        \/ OverlapCreate(p, outcome)

vars == <<pipeVars, exVars, rspVars, basicVars, pub>>

Spec == Init /\ [][Next]_vars

SpecRuns == RunsInit /\ [][RunsNext]_vars

SpecChanges == ChangesInit /\ [][ChangesNext]_vars

SpecExtract == ExtractInit /\ [][ExtractCall]_vars

SpecParse == ParseInit /\ [][ParseCall]_vars

SpecBasic == BasicInit /\ [][BasicCall]_vars

SpecOverlap == OverlapInit /\ [][OverlapNext]_vars

(***************************************************************************)
(* Claims about one run (Spec)                                             *)
(***************************************************************************)
Min(S) == CHOOSE m \in S : \A k \in S : m <= k

Done == pc = "exited"

Res == result[1]

Sent(req) == \E i \in 1..Len(log) : log[i].req = req

Failed(req) == \E i \in 1..Len(log) : log[i].req = req /\ ~log[i].ok

Succeeded(req) == \E i \in 1..Len(log) : log[i].req = req /\ log[i].ok

PublishingFailed ==
    Failed("GET comments") \/ Failed("PATCH comment") \/ Failed("POST comment")

\* C1: when the fetch of the pull request's metadata fails (all required
\* environment variables present), the run is aborted and the process exits
\* with a non-zero status.
C1_FetchFailureExitsNonZero ==
    (env.present /\ Failed("GET pull")) => (Done /\ exitCode # 0)

\* C2: after a successful analysis with comment posting enabled, a failure of
\* a publishing request (list, update, create) does not abort the run:
\* comment_posted is false, success stays true, the exit status is 0.
C2_PublishingFailureNotFatal ==
    PublishingFailed =>
        /\ Done
        /\ exitCode = 0
        /\ Res.success
        /\ outputs.success = "true"
        /\ outputs.comment_posted = "false"

C2_Witness == Done /\ Failed("PATCH comment") /\ env.anthropicApiKey

HeuristicFields ==
    {"correctness_score", "completeness_score", "risk_level", "recommendations",
     "analysis_type"}

\* C3: with a model credential, when the model call fails analyzePR returns
\* success and its scores, risk level, recommendations and analysis type are
\* those of performBasicAnalysis for the same PR, fetched issues and files.
C3_ModelFailureFallsBack ==
    (env.anthropicApiKey /\ Failed("POST model")) =>
        /\ result # <<>>
        /\ Res.success
        /\ \A f \in HeuristicFields :
              Res.analysis[f] = performBasicAnalysis(pull, issueList, fileList)[f]

C3_Witness ==
    /\ Done
    /\ env.anthropicApiKey
    /\ Failed("POST model")
    /\ Len(issueList) > 0
    /\ Len(issueList) < Len(issueNums)

\* the arguments of the requests of one kind, in the order they were sent
RECURSIVE ArgsOf(_, _)
ArgsOf(lg, req) ==
    IF lg = <<>> THEN <<>>
    ELSE (IF Head(lg).req = req THEN <<Head(lg).arg>> ELSE <<>>) \o ArgsOf(Tail(lg), req)

RECURSIVE OkArgsOf(_, _)
OkArgsOf(lg, req) ==
    IF lg = <<>> THEN <<>>
    ELSE (IF Head(lg).req = req /\ Head(lg).ok THEN <<Head(lg).arg>> ELSE <<>>)
         \o OkArgsOf(Tail(lg), req)

\* C4: whichever issue fetches fail, the run goes on and analyzePR returns
\* success (the fetches of the PR and of its files succeeding); the issues
\* are fetched once each in extraction order, the issue list holds exactly
\* those whose fetch succeeded, and linkedIssues is the full extracted list.
C4_IssueFailuresAreLocal ==
    /\ (Failed("GET issue") /\ Done) => result # <<>>
    /\ (result # <<>> /\ Succeeded("GET pull") /\ Succeeded("GET files")) =>
          /\ Res.success
          /\ ArgsOf(log, "GET issue") = extractIssueNumbers(pull)
          /\ [i \in 1..Len(issueList) |-> issueList[i].number]
                = OkArgsOf(log, "GET issue")
          /\ Res.analysis.linkedIssues = extractIssueNumbers(pull)

C4_Witness ==
    /\ Done
    /\ result # <<>>
    /\ Res.success
    /\ Len(Res.analysis.linkedIssues) = 2
    /\ Len(issueList) = 1
    /\ issueList[1].number = Res.analysis.linkedIssues[2]

\* C5: when the meaningful-changes predicate is false and no issue number was
\* extracted, analyzePR returns the canned 'no changes' result (scores 'N/A',
\* risk LOW) and the run sends no model request and runs no heuristic scoring.
C5_NoChangesShortCircuit ==
    (/\ Succeeded("GET files")
     /\ ~hasMeaningfulChanges(files)
     /\ extractIssueNumbers(pull) = <<>>) =>
        /\ pc # "callClaude"
        /\ result # <<>>
        /\ Res.success
        /\ Res.analysis.correctness_score = Str("N/A")
        /\ Res.analysis.completeness_score = Str("N/A")
        /\ Res.analysis.risk_level = Str("LOW")
        /\ Res.analysis.analysis_type = "No Changes Analysis"
        /\ ~Sent("POST model")
        /\ ~Sent("performBasicAnalysis")

C5_Witness ==
    /\ Done
    /\ env.anthropicApiKey
    /\ Len(files) > 0
    /\ result # <<>>
    /\ Res.success
    /\ Res.analysis.analysis_type = "No Changes Analysis"

\* a comment of a Bot account whose body contains the marker
IsBotAnalysis(c) == c.user.type = "Bot" /\ c.body.heading \in {Heading, QuotedHeading}

\* C6: postOrUpdateComment with all requests succeeding.  With update-existing:
\* if the comment list holds a Bot comment that contains the marker, the first
\* such comment is edited and none is created; if it holds none, one comment
\* is created and none edited.  Without update-existing the list is not
\* requested and a comment is created.
C6_UpdateFirstOrCreate ==
    (Done /\ outputs.comment_posted = "true") =>
        IF env.updateExisting
        THEN /\ listed # <<>>
             /\ LET list == listed[1]
                    matches == {i \in 1..Len(list) : IsBotAnalysis(list[i])}
                IN IF matches # {}
                   THEN /\ ArgsOf(log, "PATCH comment") = <<list[Min(matches)].id>>
                        /\ ~Sent("POST comment")
                        /\ Len(comments) = Len(list)
                        /\ comments[Min(matches)].body = comment[1]
                   ELSE /\ Count(log, "POST comment") = 1
                        /\ ~Sent("PATCH comment")
                        /\ Len(comments) = Len(list) + 1
                        /\ comments[Len(comments)].body = comment[1]
        ELSE /\ ~Sent("GET comments")
             /\ Count(log, "POST comment") = 1
             /\ ~Sent("PATCH comment")
             /\ comments[Len(comments)].body = comment[1]

C6_Witness ==
    /\ Done
    /\ outputs.comment_posted = "true"
    /\ env.updateExisting
    /\ ArgsOf(log, "PATCH comment") = <<3>>
    /\ Len(comments) = 4

\* C8 as stated: whatever the model responds, the analysis returns success,
\* the comment is rendered and the process exits with status 0.
C8_NoResponseAbortsRun ==
    Succeeded("POST model") =>
        /\ result # <<>>
        /\ Res.success
        /\ comment # <<>>
        /\ Done => exitCode = 0

\* C16: a call of postOrUpdateComment sends at most one write request, one
\* PATCH or one POST and never both; when an existing bot comment was found
\* and its update fails, no comment is created, the comments stay as they
\* were listed and the call returns false.
C16_AtMostOneWrite ==
    /\ Count(log, "PATCH comment") + Count(log, "POST comment") <= 1
    /\ Failed("PATCH comment") =>
          /\ Done
          /\ ~Sent("POST comment")
          /\ comments = listed[1]
          /\ outputs.comment_posted = "false"

C16_Witness ==
    /\ Done
    /\ Failed("PATCH comment")
    /\ target = 3
    /\ Len(comments) = 4
    /\ outputs.comment_posted = "false"

\* C17: in a run where analyzePR returns a failure (the fetch of the PR or of
\* its files failed) no comment list, update or create request is sent, also
\* with posting enabled, and the outputs are success=false,
\* risk_level=UNKNOWN and comment_posted=false.
C17_NoPublishingAfterFailure ==
    (result # <<>> /\ ~Res.success) =>
        /\ Failed("GET pull") \/ Failed("GET files")
        /\ ~Sent("GET comments")
        /\ ~Sent("PATCH comment")
        /\ ~Sent("POST comment")
        /\ pc \notin {"findExistingComment", "updateComment", "createComment"}
        /\ comment = <<>>
        /\ outputs = [success |-> "false", risk_level |-> Str("UNKNOWN"),
                      comment_posted |-> "false"]

C17_Witness ==
    /\ Done
    /\ env.shouldComment
    /\ Failed("GET files")
    /\ Len(issueNums) = 2
    /\ result # <<>>
    /\ ~Res.success

HeuristicTags ==
    {"Basic Heuristic (with Issues)", "Basic Heuristic (PR Description Based)"}

\* C18: in every successful heuristic result the analysis type is 'Basic
\* Heuristic (with Issues)' and the 'consider linking related issues'
\* recommendation is absent if and only if linkedIssues is not empty,
\* whatever the outcomes of the issue fetches.
C18_TagAgreesWithLinkedIssues ==
    (result # <<>> /\ Res.success /\ Res.analysis.analysis_type \in HeuristicTags) =>
        LET recs == Res.analysis.recommendations IN
        (/\ Res.analysis.analysis_type = "Basic Heuristic (with Issues)"
         /\ \A i \in 1..Len(recs) : recs[i] # Str(RecLinkIssues))
            <=> (Len(Res.analysis.linkedIssues) > 0)

(***************************************************************************)
(* C7: runs one after the other (SpecRuns)                                 *)
(***************************************************************************)
HasMarker(c) == c.body.heading \in {Heading, QuotedHeading}

\* every run so far posted with update-existing and saw no request fail, the
\* host reports the checker's comments with author type 'Bot', and no Bot
\* comment of another account contains the marker
SequentialCleanRuns ==
    /\ Done
    /\ run >= 1
    /\ clean
    /\ tokenType = "Bot"
    /\ \A i \in 1..Len(comments) :
          (comments[i].user.login = "other" /\ comments[i].user.type = "Bot")
             => ~HasMarker(comments[i])

\* C7 as stated: after any number of sequential successful runs (posting and
\* update-existing enabled, all requests succeeding, the bot's comments of
\* type 'Bot'), the PR carries exactly one comment that contains the marker,
\* and its body is the comment of the most recent run.
C7_OneMarkerComment ==
    SequentialCleanRuns =>
        LET marked == {i \in 1..Len(comments) : HasMarker(comments[i])}
        IN /\ Cardinality(marked) = 1
           /\ \A i \in marked : comments[i].body = comment[1]

\* C7 (amended): after such runs, and with no Bot comment of another account
\* that contains the marker, the PR carries exactly one comment of author
\* type 'Bot' that contains the marker, and its body is the comment of the
\* most recent run; comments of other author types that contain the marker
\* (a user quoting the analysis) are left as they are.
C7_OneBotMarkerComment ==
    SequentialCleanRuns =>
        LET marked == {i \in 1..Len(comments) :
                          HasMarker(comments[i]) /\ comments[i].user.type = "Bot"}
        IN /\ Cardinality(marked) = 1
           /\ \A i \in marked : comments[i].body = comment[1]
           /\ \A i \in 1..Len(comments) :
                 comments[i].user.login = "other" =>
                    comments[i].body \in {Body(OtherHeading), Body(QuotedHeading)}

C7_Witness ==
    /\ SequentialCleanRuns
    /\ run = 2
    /\ Sent("PATCH comment")
    /\ \E i \in 1..Len(comments) :
          comments[i].user.type = "User" /\ HasMarker(comments[i])

(***************************************************************************)
(* C9: parseClaudeResponse on well-formed JSON in prose (SpecParse)        *)
(***************************************************************************)
\* the response is prose around one JSON object that carries the six keys
\* once each with conforming values
WellFormedInProse(response) ==
    LET opens  == {i \in 1..Len(response) : response[i].t = "{"}
        closes == {i \in 1..Len(response) : response[i].t = "}"}
    IN /\ Cardinality(opens) = 1
       /\ Cardinality(closes) = 1
       /\ LET i == Min(opens)
              j == Min(closes)
              vals(key) == {response[k].val : k \in {x \in (i + 1)..(j - 1) :
                                                       response[x].key = key}}
          IN /\ i < j
             /\ \A k \in 1..Len(response) :
                   response[k].t = (IF k \in {i, j} THEN response[k].t
                                    ELSE IF i < k /\ k < j THEN "member" ELSE "prose")
             /\ j - i - 1 = Cardinality(FieldKeys)
             /\ \A key \in FieldKeys : Cardinality(vals(key)) = 1
             /\ \A key \in {"correctness_score", "completeness_score"} :
                   \A v \in vals(key) : v.k = "num" /\ v.n \in 0..10
             /\ \A v \in vals("risk_level") : v \in {Str("LOW"), Str("MEDIUM"), Str("HIGH")}
             /\ \A key \in {"missing_requirements", "implementation_quality"} :
                   \A v \in vals(key) : v.k = "str" /\ v.s # ""
             /\ \A v \in vals("recommendations") :
                   v.k = "arr" /\ \A x \in 1..Len(v.a) : v.a[x].k = "str"

\* the value the object of the response gives a key
ValueIn(response, key) ==
    response[CHOOSE k \in 1..Len(response) : response[k].key = key].val

\* C9 as stated: for prose around one well-formed JSON object with the six
\* keys and conforming values (scores any integer 0..10), parseClaudeResponse
\* returns exactly those six values and the type 'AI-Powered'.
C9_WellFormedJsonExtracted ==
    (rspOut # <<>> /\ WellFormedInProse(rsp)) =>
        /\ rspOut[1].analysis_type = "AI-Powered"
        /\ \A key \in FieldKeys \ {"recommendations"} :
              rspOut[1][key] = ValueIn(rsp, key)
        /\ rspOut[1].recommendations = ValueIn(rsp, "recommendations").a

(***************************************************************************)
(* C10: issue-number extraction                                            *)
(***************************************************************************)
ExText == PRText([title |-> exTitle, body |-> exBody])

\* the positions of the numbers written '#N' (also those written 'verb #N')
HashRefs(text) ==
    {d \in 2..Len(text) : text[d - 1] = "#" /\ IsDigit(text[d])}

\* the positions of the numbers written 'verb N'
PlainRefs(text) ==
    {d \in 3..Len(text) :
        /\ IsDigit(text[d])
        /\ IsSpace(text[d - 1])
        /\ \E v \in 1..(d - 2) :
              text[v] \in Verbs /\ \A k \in (v + 1)..(d - 1) : IsSpace(text[k])}

NumAt(text, d) == ParseInt(text, d, DigitRun(text, d))

NumsAt(text, refs) == {NumAt(text, d) : d \in refs}

FirstPos(text, refs, n) == Min({d \in refs : NumAt(text, d) = n})

NoDuplicates(r) == \A i, j \in 1..Len(r) : i # j => r[i] # r[j]

Elements(r) == {r[i] : i \in 1..Len(r)}

\* the rank of a number in the code's order: the '#N' numbers by position,
\* then the numbers written only as 'verb N' by position
PatternRank(text, n) ==
    IF n \in NumsAt(text, HashRefs(text))
    THEN FirstPos(text, HashRefs(text), n)
    ELSE Len(text) + FirstPos(text, PlainRefs(text), n)

\* C10 as stated: every referenced issue number is returned exactly once,
\* ordered by the position of its first appearance in the text, whichever
\* pattern matched it.
C10_FirstAppearanceOrder ==
    exOut # <<>> =>
        LET r == exOut[1]
            refs == HashRefs(ExText) \cup PlainRefs(ExText)
        IN /\ NoDuplicates(r)
           /\ Elements(r) = NumsAt(ExText, refs)
           /\ \A i, j \in 1..Len(r) :
                 i < j => FirstPos(ExText, refs, r[i]) < FirstPos(ExText, refs, r[j])

\* C10 (amended): every referenced issue number is returned exactly once; the
\* numbers written '#N' come first, by the position of their first '#N', and
\* the numbers written only as 'verb N' follow, by the position of their
\* first appearance.
C10_PatternMajorOrder ==
    exOut # <<>> =>
        LET r == exOut[1]
            refs == HashRefs(ExText) \cup PlainRefs(ExText)
        IN /\ NoDuplicates(r)
           /\ Elements(r) = NumsAt(ExText, refs)
           /\ \A i, j \in 1..Len(r) :
                 i < j => PatternRank(ExText, r[i]) < PatternRank(ExText, r[j])

\* a number written twice and a 'verb N' number that precedes a '#N' number
C10_Witness ==
    /\ exOut # <<>>
    /\ Len(exOut[1]) = 2
    /\ Cardinality(HashRefs(ExText)) >= 2
    /\ \E d \in PlainRefs(ExText), h \in HashRefs(ExText) :
          /\ d < h
          /\ NumAt(ExText, d) \notin NumsAt(ExText, HashRefs(ExText))

(***************************************************************************)
(* C11, C15: the run without credential on drawn file lists (SpecChanges)  *)
(***************************************************************************)
\* the short-circuit of analyzePR fired: it returned the canned result
ShortCircuited == result # <<>> /\ Res.success
                     /\ Res.analysis.analysis_type = "No Changes Analysis"

LowSignal(file) == \E ext \in skipExtensions : EndsWithLower(file.filename, ext)

\* the files left by the low-signal filter
Filtered(fileChanges) ==
    SelectSeq(fileChanges, LAMBDA file : ~LowSignal(file) \/ file.changes > 5)

ScoresNotApplicable ==
    /\ Res.analysis.correctness_score = Str("N/A")
    /\ Res.analysis.completeness_score = Str("N/A")
    /\ Res.analysis.risk_level = Str("LOW")

\* C11 as stated: the short-circuit fires if and only if the total of changed
\* lines is 0 or the low-signal filter leaves no file; when it fires both
\* scores are 'N/A' and the risk is LOW.
C11_FiresIffNoLinesOrNoFiles ==
    (Done /\ result # <<>> /\ Res.success) =>
        /\ ShortCircuited <=> (SumChanges(files) = 0 \/ Filtered(files) = <<>>)
        /\ ShortCircuited => ScoresNotApplicable

\* C11 (amended): the short-circuit fires if and only if no issue number was
\* extracted and the total of changed lines is 0 or no file left by the
\* low-signal filter has more than one changed line (in particular when the
\* filter leaves no file); when it fires both scores are 'N/A' and the risk
\* is LOW.
C11_FiresIffNoIssuesAndNotMeaningful ==
    (Done /\ result # <<>> /\ Res.success) =>
        /\ ShortCircuited <=>
              /\ extractIssueNumbers(pull) = <<>>
              /\ \/ SumChanges(files) = 0
                 \/ \A i \in 1..Len(Filtered(files)) : Filtered(files)[i].changes <= 1
        /\ ShortCircuited => ScoresNotApplicable

\* the short-circuit fired on a file list with changed lines that the filter
\* does not empty
C11_Witness ==
    /\ Done
    /\ ShortCircuited
    /\ SumChanges(files) > 0
    /\ Len(Filtered(files)) = 2

Recommends(text) ==
    \E i \in 1..Len(Res.analysis.recommendations) :
        Res.analysis.recommendations[i] = Str(text)

\* C15: without model credential, for a PR with meaningful changes that
\* touches no test file and no config-like file, with at most 20 files and at
\* most 300 changed lines: linkedIssues is the extracted list, the risk level
\* is MEDIUM, the recommendations hold the 'add tests' entry and not the
\* 'split large PR' entry.
C15_NoTestsMediumRisk ==
    (/\ result # <<>>
     /\ Res.success
     /\ ~env.anthropicApiKey
     /\ hasMeaningfulChanges(files)
     /\ ~AnyFile(files, TestNeedles)
     /\ ~AnyFile(files, CoreNeedles)
     /\ Len(files) <= 20
     /\ SumChanges(files) <= 300) =>
        /\ Res.analysis.linkedIssues = extractIssueNumbers(pull)
        /\ Res.analysis.risk_level = Str("MEDIUM")
        /\ Recommends(RecTests)
        /\ ~Recommends(RecSplit)

\* the scenario of the spec: 'fix #1', a .md file with 2 changed lines and a
\* .ts file with 120, the fetch of the issue failing or not
C15_Witness ==
    /\ Done
    /\ result # <<>>
    /\ Res.success
    /\ Res.analysis.linkedIssues = <<1>>
    /\ files = <<File(<<"README", ".", "md">>, 2),
                 File(<<"src", "/", "app", ".", "ts">>, 120)>>

(***************************************************************************)
(* C13, C14: heuristic scoring (SpecBasic)                                 *)
(***************************************************************************)
BasicPR == basicArgs[1].prData

BasicIssues == basicArgs[1].issues

BasicFiles == basicArgs[1].fileChanges

Clamp(lo, hi, x) == IF x < lo THEN lo ELSE IF x > hi THEN hi ELSE x

InText(str, word) == \E i \in 1..Len(str) : str[i] = word

\* the keywords that appear both in the text of an issue and in the PR text
KeywordMatches ==
    Cardinality({k \in 1..Len(Keywords) :
        /\ InText(BasicPR.title, Keywords[k]) \/ InText(BasicPR.body, Keywords[k])
        /\ \E i \in 1..Len(BasicIssues) :
              InText(BasicIssues[i].title, Keywords[k])
                 \/ InText(BasicIssues[i].body, Keywords[k])})

TestsTouched == AnyFile(BasicFiles, TestNeedles)

DocsTouched == AnyFile(BasicFiles, DocNeedles)

Score(field) == basicOut[1][field].n

CompletenessWithIssues ==
    (IF Len(BasicIssues) <= 2 THEN 8 ELSE 6)
        + (IF DocsTouched THEN 1 ELSE 0) + (IF TestsTouched THEN 1 ELSE 0)

\* C13 as stated: with at least one fetched issue, correctness is
\* clamp(0,10, 2*k + (2 if tests touched)) for k matching keywords, and
\* completeness is clamp(0,10, (8 if at most 2 issues else 6) + (1 if docs
\* touched) + (1 if tests touched)).
C13_ScoresWithIssuesFromZero ==
    (basicOut # <<>> /\ Len(BasicIssues) > 0) =>
        /\ Score("correctness_score")
              = Clamp(0, 10, 2 * KeywordMatches + (IF TestsTouched THEN 2 ELSE 0))
        /\ Score("completeness_score") = Clamp(0, 10, CompletenessWithIssues)

\* C13 (amended): as stated, with correctness clamped to 1..10: it is
\* clamp(1,10, 2*k + (2 if tests touched)), so 1 where no keyword matches and
\* no test is touched.
C13_ScoresWithIssuesFromOne ==
    (basicOut # <<>> /\ Len(BasicIssues) > 0) =>
        /\ Score("correctness_score")
              = Clamp(1, 10, 2 * KeywordMatches + (IF TestsTouched THEN 2 ELSE 0))
        /\ Score("completeness_score") = Clamp(0, 10, CompletenessWithIssues)

\* three issues, no keyword in common, no test touched
C13_Witness ==
    /\ basicOut # <<>>
    /\ Len(BasicIssues) = 3
    /\ KeywordMatches = 0
    /\ ~TestsTouched
    /\ Score("correctness_score") = 1
    /\ Score("completeness_score") = 6

Blank(str) == \A i \in 1..Len(str) : str[i] = " "

TotalChanges == SumChanges(BasicFiles)

\* floor(min(10, totalChanges / 10) / 2)
ChangePoints ==
    CHOOSE q \in 0..5 :
        \/ q = 5 /\ TotalChanges >= 100
        \/ q < 5 /\ 20 * q <= TotalChanges /\ TotalChanges < 20 * (q + 1)

CorrectnessNoIssues ==
    Clamp(2, 10, (IF StrLen(BasicPR.body) > 50 THEN 4 ELSE 2)
                 + (IF 10 < StrLen(BasicPR.title) /\ StrLen(BasicPR.title) < 100
                    THEN 2 ELSE 0)
                 + ChangePoints
                 + (IF TestsTouched THEN 2 ELSE 0))

\* C14: with no fetched issue, both scores are 3 if the PR has neither title
\* nor description text; otherwise correctness is clamp(2,10, (4 if the
\* description is longer than 50 else 2) + (2 if 10 < title length < 100)
\* + floor(min(10, totalChanges/10)/2) + (2 if tests touched)) and
\* completeness is clamp(2,10, correctness - 1 + (1 if docs touched)); both
\* scores lie in 2..10.
C14_ScoresWithoutIssues ==
    (basicOut # <<>> /\ Len(BasicIssues) = 0) =>
        /\ IF Blank(BasicPR.title) /\ Blank(BasicPR.body)
           THEN Score("correctness_score") = 3 /\ Score("completeness_score") = 3
           ELSE /\ Score("correctness_score") = CorrectnessNoIssues
                /\ Score("completeness_score")
                      = Clamp(2, 10, CorrectnessNoIssues - 1
                                     + (IF DocsTouched THEN 1 ELSE 0))
        /\ Score("correctness_score") \in 2..10
        /\ Score("completeness_score") \in 2..10

\* the sum of the terms exceeds 10: long description, good title, 1000
\* changed lines, tests touched
C14_Witness ==
    /\ basicOut # <<>>
    /\ Len(BasicIssues) = 0
    /\ StrLen(BasicPR.body) > 50
    /\ StrLen(BasicPR.title) = 12
    /\ TotalChanges > 1000
    /\ TestsTouched
    /\ ~DocsTouched
    /\ Score("correctness_score") = 10
    /\ Score("completeness_score") = 9

(***************************************************************************)
(* C12: overlapping runs (SpecOverlap)                                     *)
(***************************************************************************)
\* the comments of the pull request that contain the marker
Marked == {i \in 1..Len(comments) : HasMarker(comments[i])}

\* run p listed the comments and found no bot comment with the marker
ListedNoMatch(p) ==
    pub[p].listed # <<>> /\ FindBotComment(pub[p].listed[1]) = 0

\* C12: runs that overlap, with update-existing, can both list the comments
\* before either creates one: a run creates a comment exactly when its own
\* listing held no bot comment with the marker, whatever was created since,
\* so when two runs listed no match and both create, the pull request ends
\* with two separate comments that contain the marker.
C12_OverlappingRunsBothCreate ==
    LET created == {p \in Runs : ListedNoMatch(p) /\ pub[p].wrote = "POST"}
        own == {i \in Marked : comments[i].user.login = "checker"}
    IN /\ \A p \in Runs : pub[p].wrote = "POST" <=>
             (ListedNoMatch(p) /\ pub[p].returned = "true")
       /\ Cardinality(own) >= Cardinality(created)
       /\ Cardinality(created) >= 2 =>
             \E i, j \in own : i # j /\ comments[i].id # comments[j].id

\* both runs listed an empty comment list, both created, and the pull
\* request carries two comments with the marker, of type 'Bot'
C12_Witness ==
    /\ \A p \in {1, 2} : /\ pub[p].pc = "returned"
                          /\ pub[p].listed = <<(<<>>)>>
                          /\ pub[p].returned = "true"
    /\ Len(comments) >= 2
    /\ \A i \in {1, 2} : HasMarker(comments[i]) /\ comments[i].user.type = "Bot"
    /\ comments[1].id # comments[2].id

====
